---- MODULE Spec2Model ----
(***************************************************************************)
(* MusicPlayer (musicplayer.py): one controller thread calling play,       *)
(* quit_playing, pause, resume, is_playing and return_code on a single     *)
(* MusicPlayer instance, one process_monitor thread per successful play,   *)
(* and the mpg123 child processes, which exit on their own or after 'q'.   *)
(***************************************************************************)
EXTENDS Integers, Sequences, FiniteSets, TLC

\* Bounds of the model.
MaxProc == 2        \* successful launches (children and monitor threads)
MaxCalls == 3       \* calls made by the controller thread
ExitCodes == {0, 1} \* exit statuses a child may report

\* Python's None and a set value, kept apart from every integer.
None == <<>>
Some(v) == <<v>>

VARIABLES
  _p,               \* self._p: 0 for None, else the index of a Popen object
  _is_paused,       \* self._is_paused
  _process_running, \* self._process_running
  _return_code,     \* self._return_code: None or Some(status)
  children,         \* the Popen objects created so far, in launch order
  mon,              \* the monitor threads, mon[i] started by the i-th launch
  ctl,              \* controller: "idle", or "quit_wait" inside quit_playing's loop
  calls,            \* number of controller calls begun
  lastCall,         \* name of the latest controller call
  lastResult,       \* how the latest controller call ended
  quitTarget,       \* the child that received the latest 'q' (0: none)
  quitReturned,     \* quit_playing has returned and play was not called since
  recorded,         \* some monitor has recorded a child's exit status
  completedNoPlay   \* a monitor has recorded a status and play did not succeed since

vars == <<_p, _is_paused, _process_running, _return_code, children, mon, ctl,
          calls, lastCall, lastResult, quitTarget, quitReturned, recorded,
          completedNoPlay>>

player == <<_p, _is_paused, _process_running, _return_code>>
history == <<quitTarget, quitReturned, recorded, completedNoPlay>>

\* subprocess.Popen(..., stdin=PIPE): a live child, nothing written yet.
Popen == [alive |-> TRUE, returncode |-> None, stdin |-> <<>>]

\* threading.Thread(target=self.process_monitor): not yet run.
\* obj is the Popen object a blocking wait() was called on (0: none).
Thread == [pc |-> "start", obj |-> 0]

\* stdin.write(data); stdin.flush() on child c (the pipe of a live child).
stdin_write(c, data) ==
  [children EXCEPT ![c].stdin = Append(@, data)]

\* The bytes 's' written to child c so far.
Toggles(c) ==
  Cardinality({i \in 1..Len(children[c].stdin) : children[c].stdin[i] = "s"})

Procs == 1..Len(children)
Alive == {c \in Procs : children[c].alive}
Unfinished == {m \in 1..Len(mon) : mon[m].pc # "done"}

\* A controller call begins: the controller is between calls.
Call(name) ==
  /\ ctl = "idle"
  /\ calls < MaxCalls
  /\ calls' = calls + 1
  /\ lastCall' = name

Init ==
  /\ _p = 0
  /\ _is_paused = FALSE
  /\ _process_running = FALSE
  /\ _return_code = None
  /\ children = <<>>
  /\ mon = <<>>
  /\ ctl = "idle"
  /\ calls = 0
  /\ lastCall = "none"
  /\ lastResult = "none"
  /\ quitTarget = 0
  /\ quitReturned = FALSE
  /\ recorded = FALSE
  /\ completedNoPlay = FALSE

\* Mutant of play: the handle is cleared before the launch is attempted.
play_clears_handle(found) ==
  /\ Call("play")
  /\ quitReturned' = FALSE
  /\ IF found
       THEN /\ Len(children) < MaxProc
            /\ children' = Append(children, [Popen EXCEPT !.stdin = <<"">>])
            /\ _p' = Len(children) + 1
            /\ mon' = Append(mon, Thread)
            /\ lastResult' = "ok"
            /\ completedNoPlay' = FALSE
       ELSE /\ lastResult' = "AudioEngineUnavailableError"
            /\ _p' = 0
            /\ UNCHANGED <<children, mon, completedNoPlay>>
  /\ UNCHANGED <<_is_paused, _process_running, _return_code, ctl, quitTarget,
                 recorded>>

\* Mutant of play: a successful launch also resets self._is_paused.
play_resets_paused(found) ==
  /\ Call("play")
  /\ quitReturned' = FALSE
  /\ IF found
       THEN /\ Len(children) < MaxProc
            /\ children' = Append(children, [Popen EXCEPT !.stdin = <<"">>])
            /\ _p' = Len(children) + 1
            /\ mon' = Append(mon, Thread)
            /\ lastResult' = "ok"
            /\ completedNoPlay' = FALSE
            /\ _is_paused' = FALSE
       ELSE /\ lastResult' = "AudioEngineUnavailableError"
            /\ UNCHANGED <<_p, _is_paused, children, mon, completedNoPlay>>
  /\ UNCHANGED <<_process_running, _return_code, ctl, quitTarget, recorded>>

\* play(sound_file). found: whether Popen finds the mpg123 binary.
play(found) ==
  /\ Call("play")
  /\ quitReturned' = FALSE
  /\ IF found
       THEN /\ Len(children) < MaxProc
            /\ children' = Append(children, [Popen EXCEPT !.stdin = <<"">>])
            /\ _p' = Len(children) + 1
            /\ mon' = Append(mon, Thread)
            /\ lastResult' = "ok"
            /\ completedNoPlay' = FALSE
       ELSE /\ lastResult' = "AudioEngineUnavailableError"
            /\ UNCHANGED <<_p, children, mon, completedNoPlay>>
  /\ UNCHANGED <<_is_paused, _process_running, _return_code, ctl, quitTarget,
                 recorded>>

\* quit_playing(), up to its loop: write b'q' and flush.
quit_playing ==
  /\ Call("quit_playing")
  /\ IF _p = 0
       THEN /\ lastResult' = "AttributeError"
            /\ UNCHANGED <<children, ctl, quitTarget>>
       ELSE IF ~children[_p].alive
         THEN /\ lastResult' = "BrokenPipeError"
              /\ UNCHANGED <<children, ctl, quitTarget>>
         ELSE /\ children' = stdin_write(_p, "q")
              /\ ctl' = "quit_wait"
              /\ quitTarget' = _p
              /\ lastResult' = "waiting"
  /\ UNCHANGED <<player, mon, quitReturned, recorded, completedNoPlay>>

\* quit_playing(): one test of the loop `while self._process_running: sleep`.
quit_wait ==
  /\ ctl = "quit_wait"
  /\ IF _process_running
       THEN UNCHANGED vars
       ELSE /\ ctl' = "idle"
            /\ lastResult' = "returned"
            /\ quitReturned' = TRUE
            /\ UNCHANGED <<player, children, mon, calls, lastCall, quitTarget,
                           recorded, completedNoPlay>>

\* Mutant of pause: the toggle is sent without testing self._process_running.
pause_unguarded ==
  /\ Call("pause")
  /\ IF _p # 0 /\ ~_is_paused /\ children[_p].alive
       THEN /\ children' = stdin_write(_p, "s")
            /\ _is_paused' = TRUE
            /\ lastResult' = "sent"
       ELSE /\ lastResult' = IF _process_running THEN "noop" ELSE "NoPlaybackError"
            /\ UNCHANGED <<_is_paused, children>>
  /\ UNCHANGED <<_p, _process_running, _return_code, mon, ctl, history>>

\* pause()
pause ==
  /\ Call("pause")
  /\ IF _process_running
       THEN IF _is_paused
         THEN /\ lastResult' = "noop"
              /\ UNCHANGED <<_is_paused, children>>
         ELSE IF children[_p].alive
           THEN /\ children' = stdin_write(_p, "s")
                /\ _is_paused' = TRUE
                /\ lastResult' = "sent"
           ELSE /\ lastResult' = "BrokenPipeError"
                /\ UNCHANGED <<_is_paused, children>>
       ELSE /\ lastResult' = "NoPlaybackError"
            /\ UNCHANGED <<_is_paused, children>>
  /\ UNCHANGED <<_p, _process_running, _return_code, mon, ctl, history>>

\* resume()
resume ==
  /\ Call("resume")
  /\ IF _process_running
       THEN IF ~_is_paused
         THEN /\ lastResult' = "noop"
              /\ UNCHANGED <<_is_paused, children>>
         ELSE IF children[_p].alive
           THEN /\ children' = stdin_write(_p, "s")
                /\ _is_paused' = FALSE
                /\ lastResult' = "sent"
           ELSE /\ lastResult' = "BrokenPipeError"
                /\ UNCHANGED <<_is_paused, children>>
       ELSE /\ lastResult' = "NoPlaybackError"
            /\ UNCHANGED <<_is_paused, children>>
  /\ UNCHANGED <<_p, _process_running, _return_code, mon, ctl, history>>

\* is_playing()
is_playing ==
  /\ Call("is_playing")
  /\ lastResult' = IF _process_running THEN "True" ELSE "False"
  /\ UNCHANGED <<player, children, mon, ctl, history>>

\* return_code()
return_code ==
  /\ Call("return_code")
  /\ lastResult' = IF _return_code = None THEN "None" ELSE ToString(_return_code[1])
  /\ UNCHANGED <<player, children, mon, ctl, history>>

\* Mutant of monitor_start: the flag is not set when the monitor starts.
monitor_start_skips_flag(m) ==
  /\ mon[m].pc = "start"
  /\ mon' = [mon EXCEPT ![m].pc = "poll"]
  /\ UNCHANGED <<player, children, ctl, calls, lastCall, lastResult, history>>

\* process_monitor, first statement: self._process_running = True
monitor_start(m) ==
  /\ mon[m].pc = "start"
  /\ _process_running' = TRUE
  /\ mon' = [mon EXCEPT ![m].pc = "poll"]
  /\ UNCHANGED <<_p, _is_paused, _return_code, children, ctl, calls, lastCall,
                 lastResult, history>>

\* process_monitor: self._return_code = self._p.poll()
monitor_poll(m) ==
  /\ mon[m].pc = "poll"
  /\ _return_code' = children[_p].returncode
  /\ mon' = [mon EXCEPT ![m].pc = "check"]
  /\ recorded' = (recorded \/ children[_p].returncode # None)
  /\ completedNoPlay' = (completedNoPlay \/ children[_p].returncode # None)
  /\ UNCHANGED <<_p, _is_paused, _process_running, children, ctl, calls,
                 lastCall, lastResult, quitTarget, quitReturned>>

\* Mutant of monitor_check: wait() is called whatever poll() gave.
monitor_check_always_waits(m) ==
  /\ mon[m].pc = "check"
  /\ mon' = [mon EXCEPT ![m].pc = "bind"]
  /\ UNCHANGED <<player, children, ctl, calls, lastCall, lastResult, history>>

\* Mutant of monitor_check: the blocking wait is skipped whatever poll() gave.
monitor_check_never_waits(m) ==
  /\ mon[m].pc = "check"
  /\ mon' = [mon EXCEPT ![m].pc = "end"]
  /\ UNCHANGED <<player, children, ctl, calls, lastCall, lastResult, history>>

\* process_monitor: the test `if self._return_code == None`
monitor_check(m) ==
  /\ mon[m].pc = "check"
  /\ mon' = [mon EXCEPT ![m].pc = IF _return_code = None THEN "bind" ELSE "end"]
  /\ UNCHANGED <<player, children, ctl, calls, lastCall, lastResult, history>>

\* process_monitor: self._p.wait() is called on the object self._p names now
monitor_bind(m) ==
  /\ mon[m].pc = "bind"
  /\ mon' = [mon EXCEPT ![m].pc = "wait", ![m].obj = _p]
  /\ UNCHANGED <<player, children, ctl, calls, lastCall, lastResult, history>>

\* process_monitor: wait() returns once its process has exited;
\* self._return_code = the status
monitor_wait(m) ==
  /\ mon[m].pc = "wait"
  /\ ~children[mon[m].obj].alive
  /\ _return_code' = children[mon[m].obj].returncode
  /\ mon' = [mon EXCEPT ![m].pc = "end"]
  /\ recorded' = TRUE
  /\ completedNoPlay' = TRUE
  /\ UNCHANGED <<_p, _is_paused, _process_running, children, ctl, calls,
                 lastCall, lastResult, quitTarget, quitReturned>>

\* Mutant of monitor_end: the flag is not cleared when the monitor finishes.
monitor_end_keeps_flag(m) ==
  /\ mon[m].pc = "end"
  /\ mon' = [mon EXCEPT ![m].pc = "done"]
  /\ UNCHANGED <<player, children, ctl, calls, lastCall, lastResult, history>>

\* process_monitor, last statement: self._process_running = False
monitor_end(m) ==
  /\ mon[m].pc = "end"
  /\ _process_running' = FALSE
  /\ mon' = [mon EXCEPT ![m].pc = "done"]
  /\ UNCHANGED <<_p, _is_paused, _return_code, children, ctl, calls, lastCall,
                 lastResult, history>>

process_monitor(m) ==
  \/ monitor_start(m)
  \/ monitor_poll(m)
  \/ monitor_check(m)
  \/ monitor_bind(m)
  \/ monitor_wait(m)
  \/ monitor_end(m)

\* The child process c exits with status code: at the end of the file, on an
\* error, or after reading 'q'.
child_exit(c, code) ==
  /\ children[c].alive
  /\ children' = [children EXCEPT ![c].alive = FALSE, ![c].returncode = Some(code)]
  /\ UNCHANGED <<player, mon, ctl, calls, lastCall, lastResult, history>>

Next ==
  \/ \E found \in BOOLEAN : play(found)
  \/ quit_playing
  \/ quit_wait
  \/ pause
  \/ resume
  \/ is_playing
  \/ return_code
  \/ \E m \in 1..Len(mon) : process_monitor(m)
  \/ \E c \in Procs, code \in ExitCodes : child_exit(c, code)

Spec == Init /\ [][Next]_vars

\* The child c has been sent 'q'.
GotQuit(c) == \E i \in 1..Len(children[c].stdin) : children[c].stdin[i] = "q"

\* Scheduling: every monitor thread keeps running, the controller keeps
\* testing the loop of quit_playing, and a child that was sent 'q' exits.
Fairness ==
  /\ \A m \in 1..MaxProc : WF_vars(m <= Len(mon) /\ process_monitor(m))
  /\ WF_vars(quit_wait)
  /\ \A c \in 1..MaxProc :
       WF_vars(c <= Len(children) /\ GotQuit(c)
                 /\ \E code \in ExitCodes : child_exit(c, code))

FairSpec == Spec /\ Fairness

\* A controller call of the given name is made in this step.
Calling(name) == calls' # calls /\ lastCall' = name

(***************************************************************************)
(* Properties                                                              *)
(***************************************************************************)

\* C1: when quit_playing has returned, the child that received its 'q' has
\* terminated.
C1_QuitReturnsAfterTermination ==
  (lastCall = "quit_playing" /\ lastResult = "returned")
    => ~children[quitTarget].alive

\* C2: in the state where quit_playing returns, _process_running is false
\* and _return_code is the exit status of the child that was quit, and
\* _process_running stays false until the next play call.
C2_QuitSettlesState ==
  [][ /\ (ctl = "quit_wait" /\ ctl' = "idle")
           => /\ ~_process_running'
              /\ _return_code' # None
              /\ _return_code' = children'[quitTarget'].returncode
      /\ quitReturned' => ~_process_running' ]_vars

\* C3: _process_running is false before the first play, and a quit_playing
\* that has sent 'q' eventually returns, in a state where _process_running
\* is false.
C3_QuitTerminates ==
  /\ [](Len(children) = 0 => ~_process_running)
  /\ (ctl = "quit_wait")
       ~> (ctl = "idle" /\ lastResult = "returned" /\ ~_process_running)

C3_Witness ==
  /\ lastCall = "quit_playing" /\ lastResult = "returned"
  /\ ~_process_running
  /\ \E m \in 1..Len(mon) : mon[m].pc = "done"

\* C4: pause or resume called while _process_running is false raises
\* NoPlaybackError, writes nothing to any child and leaves _process_running,
\* _return_code and _is_paused unchanged.
C4_NoPlaybackWhenNotRunning ==
  [][ ((Calling("pause") \/ Calling("resume")) /\ ~_process_running)
        => /\ lastResult' = "NoPlaybackError"
           /\ UNCHANGED <<children, _process_running, _return_code, _is_paused>>
    ]_vars

C4_Witness ==
  /\ lastCall \in {"pause", "resume"}
  /\ lastResult = "NoPlaybackError"
  /\ \E m \in 1..Len(mon) : mon[m].pc = "done"

\* C5: every pause call made while _process_running is true leaves the
\* player paused, and writes one 's' if it was playing and none if it was
\* already paused.
C5_PauseIdempotent ==
  [][ (Calling("pause") /\ _process_running)
        => /\ _is_paused'
           /\ Toggles(_p)' = Toggles(_p) + (IF _is_paused THEN 0 ELSE 1) ]_vars

\* C6: every resume call made while _process_running is true writes one 's'
\* and clears _is_paused if the player was paused, and changes nothing if it
\* was playing; a resume right after an effective pause leaves "s", "s" as
\* the last two writes.
C6_ResumeMirrorsPause ==
  [][ (Calling("resume") /\ _process_running)
        => IF _is_paused
             THEN /\ ~_is_paused'
                  /\ Toggles(_p)' = Toggles(_p) + 1
                  /\ (lastCall = "pause" /\ lastResult = "sent")
                       => SubSeq(children'[_p].stdin,
                                 Len(children'[_p].stdin) - 1,
                                 Len(children'[_p].stdin)) = <<"s", "s">>
             ELSE UNCHANGED <<player, children>> ]_vars

\* A play call that launches no child.
FailedPlay == Calling("play") /\ children' = children

\* C7: a play call that cannot launch the player raises
\* AudioEngineUnavailableError, starts no monitor, leaves _p,
\* _process_running, _return_code and _is_paused unchanged, and
\* _process_running is false after it.
C7_FailedPlayNotPlaying ==
  [][ FailedPlay
        => /\ lastResult' = "AudioEngineUnavailableError"
           /\ UNCHANGED <<player, mon>>
           /\ ~_process_running' ]_vars

\* C7 as amended: as above, but _process_running after the failed call is
\* what it was before the call, false only if it was false.
C7_FailedPlayChangesNothing ==
  [][ FailedPlay
        => /\ lastResult' = "AudioEngineUnavailableError"
           /\ UNCHANGED <<player, mon>>
           /\ (~_process_running => ~_process_running') ]_vars

C7_Witness ==
  /\ lastCall = "play" /\ lastResult = "AudioEngineUnavailableError"
  /\ _p # 0
  /\ _process_running

\* C8: at most one child launched by the player is alive and at most one
\* monitor thread is unfinished.
C8_AtMostOneSession ==
  Cardinality(Alive) <= 1 /\ Cardinality(Unfinished) <= 1

\* C9: once some monitor has recorded a child's exit status, _return_code is
\* not None.
C9_SetOnceRecorded ==
  recorded => _return_code # None

\* C9 as amended: once some monitor has recorded a child's exit status,
\* _return_code is None only while a monitor whose poll() found a child still
\* running has not yet stored the result of its wait().
C9_UnsetOnlyWhileLaterMonitorWaits ==
  (recorded /\ _return_code = None)
    => \E m \in 1..Len(mon) : mon[m].pc \in {"check", "bind", "wait"}

C9_Witness ==
  /\ recorded
  /\ _return_code = None
  /\ \E m \in 1..Len(mon) : mon[m].pc = "done"
  /\ \E m \in 1..Len(mon) : mon[m].pc = "wait"

\* C10: _return_code is None as long as no child has exited, and once a
\* status was recorded it does not change before the next successful play.
C10_StableUntilNextPlay ==
  /\ []((\A c \in Procs : children[c].alive) => _return_code = None)
  /\ [][completedNoPlay => _return_code' = _return_code]_vars

\* The monitor m takes the step from pc a to pc b.
MonitorStep(m, a, b) ==
  m <= Len(mon) /\ mon[m].pc = a /\ mon'[m].pc = b

\* C11: after a successful play the flag _process_running eventually reads
\* true; play itself leaves it unchanged, and it only becomes true in the
\* first step of a monitor.
C11_RunningSetByMonitor ==
  /\ (\E m \in 1..Len(mon) : mon[m].pc = "start") ~> _process_running
  /\ [][ /\ Calling("play") => UNCHANGED _process_running
         /\ (~_process_running /\ _process_running')
              => \E m \in 1..Len(mon) : MonitorStep(m, "start", "poll") ]_vars

C11_Witness ==
  /\ lastCall = "play" /\ lastResult = "ok"
  /\ _process_running
  /\ mon[_p].pc = "poll"

\* C12: when some monitor has finished and _process_running is false,
\* _return_code is not None.
C12_EndedImpliesCodeSet ==
  ((\E m \in 1..Len(mon) : mon[m].pc = "done") /\ ~_process_running)
    => _return_code # None

\* C13: _return_code is None while _process_running is true.
C13_UnsetWhileRunning ==
  _process_running => _return_code = None

\* C13 as amended: _return_code is set while _process_running is true only
\* when some monitor has set the flag and not yet polled, has just polled,
\* or has stored a status and is about to clear the flag.
C13_SetWhileRunningOnlyInWindows ==
  (_process_running /\ _return_code # None)
    => \E m \in 1..Len(mon) : mon[m].pc \in {"poll", "check", "end"}

C13_Witness ==
  /\ _process_running
  /\ _return_code # None
  /\ \E m \in 1..Len(mon) : mon[m].pc = "end"

\* C14: the monitor started by the m-th launch polls and waits on the m-th
\* child only: what its poll() stores is that child's return code, and the
\* object its wait() is called on, and returns for, is that child.
C14_MonitorBoundToItsChild ==
  [][ \A m \in 1..Len(mon) :
        /\ MonitorStep(m, "poll", "check")
             => _return_code' = children[m].returncode
        /\ MonitorStep(m, "bind", "wait") => mon'[m].obj = m
        /\ MonitorStep(m, "wait", "end")
             => _return_code' = children[m].returncode ]_vars

\* C15: a monitor finishes only after its own child has terminated, with
\* _return_code equal to that child's exit status, clearing
\* _process_running, and takes no step afterwards.
C15_MonitorFinishesWithChildStatus ==
  [][ \A m \in 1..Len(mon) :
        /\ MonitorStep(m, "end", "done")
             => /\ ~children[m].alive
                /\ _return_code' = children[m].returncode
                /\ ~_process_running'
        /\ mon[m].pc = "done" => mon'[m].pc = "done" ]_vars

\* A step of the controller thread: a call begins, or quit_playing returns.
ControllerStep == calls' # calls \/ ctl' # ctl

\* C16: _process_running and _return_code change only in steps of a monitor
\* and in no step of the controller; _is_paused changes only in pause and
\* resume; is_playing and return_code change nothing of the player, the
\* children or the monitors.
C16_WriterExclusivity ==
  [][ /\ ControllerStep => UNCHANGED <<_process_running, _return_code>>
      /\ (_process_running' # _process_running \/ _return_code' # _return_code)
           => \E m \in 1..Len(mon) : mon'[m].pc # mon[m].pc
      /\ _is_paused' # _is_paused => (Calling("pause") \/ Calling("resume"))
      /\ (Calling("is_playing") \/ Calling("return_code"))
           => UNCHANGED <<player, children, mon, ctl>> ]_vars

C16_Witness ==
  /\ lastCall \in {"is_playing", "return_code"}
  /\ _process_running
  /\ _is_paused

\* C17: every child's stdin holds the empty payload of play first and then
\* only "s" and "q"; an "s" is appended exactly by a pause or resume that
\* takes effect; every quit_playing appends exactly one "q" to the current
\* child's stdin, paused or not, and leaves _is_paused unchanged.
C17_StdinSequence ==
  /\ [](\A c \in Procs :
          /\ Len(children[c].stdin) >= 1
          /\ children[c].stdin[1] = ""
          /\ \A i \in 2..Len(children[c].stdin) :
               children[c].stdin[i] \in {"s", "q"})
  /\ [][ /\ (Calling("quit_playing") /\ _p # 0)
              => /\ children'[_p].stdin = Append(children[_p].stdin, "q")
                 /\ UNCHANGED _is_paused
         /\ \A c \in Procs :
              children'[c].stdin = Append(children[c].stdin, "s")
                => /\ Calling("pause") \/ Calling("resume")
                   /\ _is_paused' # _is_paused ]_vars

\* C18: while the current child is alive, _is_paused is true exactly when an
\* odd number of "s" has been written to it; so a new session starts with
\* _is_paused false.
C18_PausedMatchesToggles ==
  (_p # 0 /\ children[_p].alive)
    => (_is_paused <=> Toggles(_p) % 2 = 1)

\* C19: pause and resume end with the byte sent to a live child, as a no-op
\* or in NoPlaybackError, and quit_playing sends its byte to a live child:
\* no call writes to a child that has exited or to a missing handle.
C19_NoWriteToDeadChild ==
  /\ lastCall \in {"pause", "resume"}
       => lastResult \in {"sent", "noop", "NoPlaybackError"}
  /\ (lastCall = "quit_playing" /\ _p # 0)
       => lastResult \in {"waiting", "returned"}

\* C20: a live child of the player implies that _process_running is true.
C20_LiveChildImpliesRunning ==
  Alive # {} => _process_running

====
